---- MODULE Spec2Model ----
(***************************************************************************)
(* Word-level model of the managed heap of dkp.cc: the heap array, the     *)
(* bump allocator, the intrusive root list of handles, the object model    *)
(* (Nil, Forward, Free, Num, Tup, Vec, Str) and the four collectors        *)
(* (reference counting, mark-sweep, semi-space copying, mark-compact).     *)
(* The heap is scaled down from 2000 words; every other layout constant    *)
(* is the program's.                                                       *)
(***************************************************************************)
EXTENDS Integers, Sequences, FiniteSets, TLC

VARIABLES mode, heap, top, root, prev, next, loc, alive, live, forwarding,
          freed, status, last, allocs

vars == <<mode, heap, top, root, prev, next, loc, alive, live, forwarding,
          freed, status, last, allocs>>

----------------------------------------------------------------------------
(* Bounds of the model.                                                    *)

HeapSize == 14
MaxHandles == 2
MaxTupLen == 2
MaxVecCap == 1
MaxAllocs == 2
MaxNilCount == 2

HeapSemiSize == HeapSize \div 2

(* Program constants.                                                      *)
WordMod == 65536
RcMod == 256
MarkUnit == 256
TypeUnit == 512
TypeMod == 16

TNil == 0
TForward == 1
TFree == 2
TNum == 3
TTup == 4
TVec == 5
TStr == 6

NumSize == 2
TupHead == 2
VecSize == 3
StrHead == 2

Modes == {"REF_COUNT_GC", "MARK_SWEEP_GC", "COPY_GC", "MARK_COMPACT_GC"}

Locs == 0 .. (HeapSize - 1)

(* Handle 1 is ObjRef::nil; MaxHandles more are held by the client; the    *)
(* last two identities are the by-value temporaries of set and push.       *)
NilRef == 1
Handles == 1 .. (MaxHandles + 4)
ClientHandles == 2 .. (MaxHandles + 1)
Temp1 == MaxHandles + 2
Temp2 == MaxHandles + 3
Temp3 == MaxHandles + 4

NumVals == {7}
StrVals == {<<97>>}

----------------------------------------------------------------------------
(* Obj::header: ref_count in bits 0..7, mark in bit 8, type in bits 9..12. *)

TypeOf(w) == (w \div TypeUnit) % TypeMod
RcOf(w) == w % RcMod
MarkOf(w) == (w \div MarkUnit) % 2

SetType(w, t) == w - TypeOf(w) * TypeUnit + t * TypeUnit
SetRc(w, rc) == w - RcOf(w) + (rc % RcMod)
SetMark(w, b) == w - MarkOf(w) * MarkUnit + b * MarkUnit

RefCounting == mode = "REF_COUNT_GC"

(* Obj::init_ref_count, on a header word.                                  *)
InitRefCount(w) == IF RefCounting THEN SetRc(w, 1) ELSE SetRc(w, 0)

(* Obj::inc_ref_count, on a header word.                                   *)
IncRefCount(w) == IF RefCounting THEN SetRc(w, RcOf(w) + 1) ELSE w

(* Obj::init(type), on a header word.                                      *)
ObjInit(w, t) == SetMark(InitRefCount(SetType(w, t)), 0)

(* A location a handle or a slot may hold without leaving the heap array.  *)
InHeap(a) == a \in Locs

(* Obj::size() of the cell at location a of heap h.                        *)
Size(h, a) ==
    LET t == TypeOf(h[a]) IN
    CASE t = TNum -> NumSize
      [] t = TTup -> (TupHead + h[a + 1]) % WordMod
      [] t = TVec -> VecSize
      [] t = TStr -> (StrHead + h[a + 1]) % WordMod
      [] t = TFree -> h[a + 1]
      [] OTHER -> 1

(* Whether Obj::size() at a trips its assertion or reads outside the heap. *)
SizeAborts(h, a) == TypeOf(h[a]) = TForward
SizeWild(h, a) ==
    TypeOf(h[a]) \in {TTup, TStr, TFree} /\ ~InHeap(a + 1)

----------------------------------------------------------------------------
----------------------------------------------------------------------------
(* The machine: the whole mutable state as one record, threaded through    *)
(* the steps of an operation. ret holds the Loc a call returned to its     *)
(* caller's local variable. Every step passes on unchanged a machine that  *)
(* has already stopped.                                                    *)

Machine ==
    [heap |-> heap, top |-> top, root |-> root, prev |-> prev, next |-> next,
     loc |-> loc, alive |-> alive, live |-> live, forwarding |-> forwarding,
     freed |-> <<>>, ret |-> 0, st |-> status]

Ok(m) == m.st = "ok"

Stop(m, why) == IF Ok(m) THEN [m EXCEPT !.st = why] ELSE m

(* heap[x] = v.                                                            *)
SetWord(m, x, v) ==
    IF ~Ok(m) THEN m
    ELSE IF ~InHeap(x) THEN Stop(m, "wild")
    ELSE [m EXCEPT !.heap[x] = v]

(* An allocator that starts again from location 1 when the heap is full.   *)
ReserveRewinds(m, size) ==
    IF ~Ok(m) THEN m
    ELSE IF (m.top + size) % WordMod < HeapSize
         THEN [m EXCEPT !.top = (m.top + size) % WordMod]
         ELSE [m EXCEPT !.top = 1 + size]

(* Mem::reserve and Mem::reserve_with_possible_overlap: the run starts at  *)
(* the old top.                                                            *)
Reserve(m, size) ==
    IF ~Ok(m) THEN m
    ELSE IF (m.top + size) % WordMod < HeapSize
         THEN [m EXCEPT !.top = (m.top + size) % WordMod]
         ELSE [m EXCEPT !.top = (m.top + size) % WordMod, !.st = "abort"]

(* The loop of Mem::alloc: zero the run of size words at a.                *)
ZeroRun(m, a, size) ==
    IF ~Ok(m) THEN m
    ELSE [m EXCEPT !.heap = [x \in Locs |->
                     IF x >= a /\ x < a + size THEN 0 ELSE m.heap[x]]]

(* Mem::alloc: reserve, then zero the run.                                 *)
Alloc(m, size) == ZeroRun(Reserve(m, size), m.top, size)

(* ObjRef::add_to_root_set.                                                *)
AddToRootSet(m, h) ==
    IF ~Ok(m) THEN m
    ELSE [m EXCEPT !.prev = IF m.root # 0
                            THEN [m.prev EXCEPT ![h] = 0, ![m.root] = h]
                            ELSE [m.prev EXCEPT ![h] = 0],
                   !.next = [m.next EXCEPT ![h] = m.root],
                   !.root = h,
                   !.alive = m.alive \cup {h}]

(* The tail of ObjRef::ObjRef for ALLOC and COPY: loc = a,                 *)
(* init_ref_count(), add_to_root_set().                                    *)
RefInit(m, h, a) ==
    IF ~Ok(m) THEN m
    ELSE AddToRootSet([m EXCEPT !.heap[a] = InitRefCount(m.heap[a]),
                                !.loc[h] = a], h)

(* ObjRef::ObjRef(ALLOC, size).                                            *)
RefAlloc(m, h, size) == RefInit(Alloc(m, size), h, m.top)

(* Obj::at(a)->inc_ref_count().                                            *)
IncAt(m, a) ==
    IF ~Ok(m) \/ ~RefCounting THEN m
    ELSE IF ~InHeap(a) THEN Stop(m, "wild")
    ELSE [m EXCEPT !.heap[a] = IncRefCount(m.heap[a])]

(* The tail of ObjRef::ObjRef for SHARE: loc = a, add_to_root_set().       *)
RefBind(m, h, a) ==
    IF ~Ok(m) THEN m ELSE AddToRootSet([m EXCEPT !.loc[h] = a], h)

(* ObjRef::ObjRef(SHARE, a) and the copy constructor.                      *)
RefShare(m, h, a) == RefBind(IncAt(m, a), h, a)

(* Num::init.                                                              *)
NumInit(m, a, v) ==
    IF ~Ok(m) THEN m
    ELSE [m EXCEPT !.heap[a] = ObjInit(m.heap[a], TNum),
                   !.heap[a + 1] = v % WordMod]

(* NumRef::NumRef(val).                                                    *)
NumRef(m, h, v) == NumInit(RefAlloc(m, h, NumSize), m.top, v)

----------------------------------------------------------------------------
(* Reference counting: dec_ref_count, cleanup, unshare, free.              *)

(* The recursion depth past which a walk over the object graph can only be *)
(* going round a cycle (every cell takes at least one word).               *)
Depth == HeapSize

(* Mem::free writing a size one word too large.                            *)
MemFreeOneMore(m, a, size) ==
    IF ~Ok(m) THEN m
    ELSE IF ~InHeap(a) \/ ~InHeap(a + 1) THEN Stop(m, "wild")
    ELSE [m EXCEPT !.heap[a] = ObjInit(m.heap[a], TFree),
                   !.heap[a + 1] = (size + 1) % WordMod,
                   !.freed = Append(m.freed, <<a, size>>)]

(* Mem::free(a, size): a Free record written in place, and its log event.  *)
MemFree(m, a, size) ==
    IF ~Ok(m) THEN m
    ELSE IF ~InHeap(a) \/ ~InHeap(a + 1) THEN Stop(m, "wild")
    ELSE [m EXCEPT !.heap[a] = ObjInit(m.heap[a], TFree),
                   !.heap[a + 1] = size % WordMod,
                   !.freed = Append(m.freed, <<a, size>>)]

(* Mem::free(a, Obj::at(a)->size()).                                       *)
FreeObj(m, a) ==
    IF ~Ok(m) THEN m
    ELSE IF SizeWild(m.heap, a) THEN Stop(m, "wild")
    ELSE IF SizeAborts(m.heap, a) THEN Stop(m, "abort")
    ELSE MemFree(m, a, Size(m.heap, a))

RECURSIVE Release(_, _, _)
RECURSIVE CleanupTup(_, _, _, _)

(* ObjRef::unshare(a).                                                     *)
Unshare(m, a, fuel) == IF a # 0 THEN Release(m, a, fuel) ELSE m

(* Vec::cleanup.                                                           *)
CleanupVec(m, a, fuel) ==
    IF ~Ok(m) THEN m
    ELSE IF ~InHeap(a + 2) THEN Stop(m, "wild")
    ELSE SetWord(Unshare(m, m.heap[a + 2], fuel), a + 2, 0)

(* Tup::cleanup, from slot i on.                                           *)
CleanupTup(m, a, i, fuel) ==
    IF ~Ok(m) THEN m
    ELSE IF ~InHeap(a + 1) THEN Stop(m, "wild")
    ELSE IF i >= m.heap[a + 1] THEN m
    ELSE IF ~InHeap(a + TupHead + i) THEN Stop(m, "wild")
    ELSE CleanupTup(
           SetWord(Unshare(m, m.heap[a + TupHead + i], fuel),
                   a + TupHead + i, 0),
           a, i + 1, fuel)

(* Obj::cleanup.                                                           *)
Cleanup(m, a, fuel) ==
    IF ~Ok(m) THEN m
    ELSE CASE TypeOf(m.heap[a]) = TTup -> CleanupTup(m, a, 0, fuel)
           [] TypeOf(m.heap[a]) = TVec -> CleanupVec(m, a, fuel)
           [] OTHER -> m

(* The header word after header.ref_count -= 1.                            *)
DecRefCount(w) == SetRc(w, RcOf(w) + RcMod - 1)

(* The cell freed before cleanup() has released what it refers to.         *)
ReleaseFreeFirst(m, a, fuel) ==
    IF ~Ok(m) \/ ~RefCounting THEN m
    ELSE IF ~InHeap(a) THEN Stop(m, "wild")
    ELSE IF fuel = 0 THEN Stop(m, "diverge")
    ELSE IF RcOf(DecRefCount(m.heap[a])) # 0
         THEN [m EXCEPT !.heap[a] = DecRefCount(m.heap[a])]
    ELSE Cleanup(FreeObj([m EXCEPT !.heap[a] = DecRefCount(m.heap[a])], a),
                 a, fuel - 1)

(* The count decremented whatever the collector.                           *)
ReleaseEveryMode(m, a, fuel) ==
    IF ~Ok(m) THEN m
    ELSE IF ~InHeap(a) THEN Stop(m, "wild")
    ELSE IF fuel = 0 THEN Stop(m, "diverge")
    ELSE IF RcOf(DecRefCount(m.heap[a])) # 0
         THEN [m EXCEPT !.heap[a] = DecRefCount(m.heap[a])]
    ELSE FreeObj(Cleanup([m EXCEPT !.heap[a] = DecRefCount(m.heap[a])],
                         a, fuel - 1), a)

(* if (Obj::at(a)->dec_ref_count()) Mem::free(a, Obj::at(a)->size()).      *)
Release(m, a, fuel) ==
    IF ~Ok(m) \/ ~RefCounting THEN m
    ELSE IF ~InHeap(a) THEN Stop(m, "wild")
    ELSE IF fuel = 0 THEN Stop(m, "diverge")
    ELSE IF RcOf(DecRefCount(m.heap[a])) # 0
         THEN [m EXCEPT !.heap[a] = DecRefCount(m.heap[a])]
    ELSE FreeObj(Cleanup([m EXCEPT !.heap[a] = DecRefCount(m.heap[a])],
                         a, fuel - 1), a)

(* The destructor without the update of ObjRef::root.                      *)
UnlinkKeepsRoot(m, h) ==
    IF ~Ok(m) THEN m
    ELSE [m EXCEPT !.prev = IF m.next[h] # 0
                            THEN [m.prev EXCEPT ![m.next[h]] = m.prev[h]]
                            ELSE m.prev,
                   !.next = IF m.prev[h] # 0
                            THEN [m.next EXCEPT ![m.prev[h]] = m.next[h]]
                            ELSE m.next]

(* The head of ObjRef::~ObjRef: the handle leaves the root list.           *)
Unlink(m, h) ==
    IF ~Ok(m) THEN m
    ELSE [m EXCEPT !.prev = IF m.next[h] # 0
                            THEN [m.prev EXCEPT ![m.next[h]] = m.prev[h]]
                            ELSE m.prev,
                   !.next = IF m.prev[h] # 0
                            THEN [m.next EXCEPT ![m.prev[h]] = m.next[h]]
                            ELSE m.next,
                   !.root = IF m.root = h THEN m.next[h] ELSE m.root]

(* The tail of ObjRef::~ObjRef: prev = 0, next = 0, loc = 0.               *)
Forget(m, h) ==
    IF ~Ok(m) THEN m
    ELSE [m EXCEPT !.prev[h] = 0, !.next[h] = 0, !.loc[h] = 0,
                   !.alive = m.alive \ {h}]

(* ObjRef::~ObjRef.                                                        *)
Destroy(m, h) ==
    IF ~Ok(m) THEN m
    ELSE Forget(Release(Unlink(m, h), m.loc[h], Depth), h)

----------------------------------------------------------------------------
(* Tup, Vec and Str.                                                       *)

RECURSIVE TupInitRefs(_, _, _)
(* The loop of Tup::init that bumps the counts of the initial values.      *)
TupInitRefs(m, a, i) ==
    IF ~Ok(m) THEN m
    ELSE IF i >= m.heap[a + 1] THEN m
    ELSE IF ~InHeap(a + TupHead + i) THEN Stop(m, "wild")
    ELSE TupInitRefs(IF m.heap[a + TupHead + i] # 0
                     THEN IncAt(m, m.heap[a + TupHead + i]) ELSE m,
                     a, i + 1)

(* Tup::init(len).                                                         *)
TupInit(m, a, len) ==
    IF ~Ok(m) THEN m
    ELSE TupInitRefs([m EXCEPT !.heap[a] = ObjInit(m.heap[a], TTup),
                               !.heap[a + 1] = len % WordMod], a, 0)

(* Tup::size_needed(len).                                                  *)
TupSizeNeeded(len) == (TupHead + len) % WordMod

(* TupRef::TupRef(len).                                                    *)
TupRef(m, h, len) == TupInit(RefAlloc(m, h, TupSizeNeeded(len)), m.top, len)

(* The words Mem::copy(from, new_size) reserves and the words it copies.   *)
CopySize(h, from, new_size) ==
    IF new_size > 0 THEN new_size ELSE Size(h, from)
CopyMin(h, from, new_size) ==
    IF new_size > 0 /\ new_size < Size(h, from) THEN new_size
    ELSE Size(h, from)

(* The loops of Mem::copy: min words copied to the run at to, the rest of  *)
(* its n words zeroed.                                                     *)
CopyRun(m, to, from, min, n) ==
    IF ~Ok(m) THEN m
    ELSE IF ~InHeap(from + min - 1) THEN Stop(m, "wild")
    ELSE [m EXCEPT !.heap = [x \in Locs |->
                     IF x >= to /\ x < to + min THEN m.heap[from + (x - to)]
                     ELSE IF x >= to + min /\ x < to + n THEN 0
                     ELSE m.heap[x]]]

(* Mem::copy(from, new_size).                                              *)
MemCopy(m, from, new_size) ==
    IF ~Ok(m) THEN m
    ELSE IF ~InHeap(from) \/ SizeWild(m.heap, from) THEN Stop(m, "wild")
    ELSE IF SizeAborts(m.heap, from) THEN Stop(m, "abort")
    ELSE CopyRun(Reserve(m, CopySize(m.heap, from, new_size)), m.top, from,
                 CopyMin(m.heap, from, new_size),
                 CopySize(m.heap, from, new_size))

(* ObjRef::ObjRef(COPY, from, new_size).                                   *)
RefCopy(m, h, from, new_size) ==
    RefInit(MemCopy(m, from, new_size), h, m.top)

(* TupRef::TupRef(src, len).                                               *)
TupRefCopy(m, h, src, len) ==
    TupInit(RefCopy(m, h, src, TupSizeNeeded(len)), m.top, len)

(* ObjRef::share without the count.                                        *)
ShareUncounted(m, h) ==
    IF ~Ok(m) THEN m
    ELSE [m EXCEPT !.ret = m.loc[h]]

(* ObjRef::share: the Loc it returns is kept in ret.                       *)
Share(m, h) ==
    IF ~Ok(m) THEN m
    ELSE [IncAt(m, m.loc[h]) EXCEPT !.ret = m.loc[h]]

(* Vec::init(tup) on the Vec at a.                                         *)
VecInit(m, a, tup) ==
    IF ~Ok(m) THEN m
    ELSE [m EXCEPT !.heap[a] = ObjInit(m.heap[a], TVec),
                   !.heap[a + 1] = 0,
                   !.heap[a + 2] = tup]

(* cast_Vec()->init(tup), tup being the Loc share() returned.              *)
VecRefInit(m, h) == IF ~Ok(m) THEN m ELSE VecInit(m, m.loc[h], m.ret)

(* VecRef::VecRef(size): Loc tup = TupRef(size).share(), whose temporary   *)
(* handle is destroyed before Vec::init runs.                              *)
VecRef(m, h, size) ==
    VecRefInit(
      Destroy(Share(TupRef(RefAlloc(m, h, VecSize), Temp1, size), Temp1),
              Temp1), h)

(* Str::init(data).                                                        *)
StrInit(m, a, data) ==
    IF ~Ok(m) THEN m
    ELSE [m EXCEPT !.heap = [x \in Locs |->
            IF x = a THEN ObjInit(m.heap[a], TStr)
            ELSE IF x = a + 1 THEN Len(data)
            ELSE IF x > a + 1 /\ x < a + StrHead + Len(data)
                 THEN data[x - a - 1]
            ELSE m.heap[x]]]

(* StrRef::StrRef(data).                                                   *)
StrRef(m, h, data) ==
    StrInit(RefAlloc(m, h, (StrHead + Len(data)) % WordMod), m.top, data)

(* Tup::get(i) on the Tup at a: the handle h it returns.                   *)
TupGet(m, h, a, i) ==
    IF ~Ok(m) THEN m
    ELSE IF ~InHeap(a + 1) THEN Stop(m, "wild")
    ELSE IF ~(i < m.heap[a + 1]) THEN Stop(m, "abort")
    ELSE IF ~InHeap(a + TupHead + i) THEN Stop(m, "wild")
    ELSE RefShare(m, h, m.heap[a + TupHead + i])

(* Vec::get(i) on the Vec at a.                                            *)
VecGet(m, h, a, i) ==
    IF ~Ok(m) THEN m
    ELSE IF ~InHeap(a + 2) THEN Stop(m, "wild")
    ELSE IF ~(i < m.heap[a + 1]) THEN Stop(m, "abort")
    ELSE TupGet(m, h, m.heap[a + 2], i)

(* Tup::set without the unshare of the slot's former value.                *)
TupStoreKeepCount(m, x) ==
    IF ~Ok(m) THEN m
    ELSE SetWord(m, x, m.ret)

(* The tail of Tup::set on slot word x: unshare(val[i]); val[i] = tmp,     *)
(* tmp being the Loc share() returned.                                     *)
TupStore(m, x) ==
    IF ~Ok(m) THEN m
    ELSE SetWord(Unshare(m, m.heap[x], Depth), x, m.ret)

(* Tup::set(i, obj) on the Tup at a; g is the parameter obj.               *)
TupSet(m, a, i, g) ==
    IF ~Ok(m) THEN m
    ELSE IF ~InHeap(a + 1) THEN Stop(m, "wild")
    ELSE IF ~(i < m.heap[a + 1]) THEN Stop(m, "abort")
    ELSE IF ~InHeap(a + TupHead + i) THEN Stop(m, "wild")
    ELSE TupStore(Share(m, g), a + TupHead + i)

(* A parameter that takes the location without counting it.               *)
ByValueUncounted(m, p, g) == IF ~Ok(m) THEN m ELSE RefBind(m, p, m.loc[g])

(* Passing handle g by value into parameter p of a call.                   *)
ByValue(m, p, g) == IF ~Ok(m) THEN m ELSE RefShare(m, p, m.loc[g])

(* TupRef::set(i, obj): obj is copied into TupRef::set and into Tup::set.  *)
TupRefSet(m, h, i, g) ==
    Destroy(Destroy(TupSet(ByValue(ByValue(m, Temp1, g), Temp2, Temp1),
                           m.loc[h], i, Temp2), Temp2), Temp1)

(* Vec::set(i, obj) on the Vec at a.                                       *)
VecSet(m, a, i, g) ==
    IF ~Ok(m) THEN m
    ELSE IF ~InHeap(a + 2) THEN Stop(m, "wild")
    ELSE IF ~(i < m.heap[a + 1]) THEN Stop(m, "abort")
    ELSE Destroy(TupSet(ByValue(m, Temp3, g), m.heap[a + 2], i, Temp3),
                 Temp3)

(* VecRef::set(i, obj).                                                    *)
VecRefSet(m, h, i, g) ==
    Destroy(Destroy(VecSet(ByValue(ByValue(m, Temp1, g), Temp2, Temp1),
                           m.loc[h], i, Temp2), Temp2), Temp1)

----------------------------------------------------------------------------
(* Walks over the object graph: dump and traverse.                         *)

RECURSIVE DumpObj(_, _, _)
RECURSIVE DumpUpTo(_, _, _, _, _)

(* One turn of the loop of Tup::dump_up_to: r is how the dump of slot i    *)
(* ended.                                                                  *)
DumpRest(r, h, a, i, max, path) ==
    IF r # "ok" THEN r ELSE DumpUpTo(h, a, i + 1, max, path)

(* Tup::dump_up_to(max) from slot i on: how the walk ends.                 *)
DumpUpTo(h, a, i, max, path) ==
    IF i >= max THEN "ok"
    ELSE IF ~InHeap(a + TupHead + i) THEN "wild"
    ELSE DumpRest(DumpObj(h, h[a + TupHead + i], path), h, a, i, max, path)

(* Tup::dump_up_to(max) on the Tup at a. path holds the calls of           *)
(* dump_up_to that have not returned: the heap does not change under the   *)
(* walk, so a call that is made again inside itself recurses for ever.     *)
DumpTup(h, a, max, path) ==
    IF <<a, max>> \in path THEN "diverge"
    ELSE DumpUpTo(h, a, 0, max, path \cup {<<a, max>>})

(* Obj::dump: "ok" when it returns, "diverge" when it recurses for ever.   *)
DumpObj(h, a, path) ==
    IF ~InHeap(a) THEN "wild"
    ELSE CASE TypeOf(h[a]) = TTup ->
                IF ~InHeap(a + 1) THEN "wild"
                ELSE DumpTup(h, a, h[a + 1], path)
           [] TypeOf(h[a]) = TVec ->
                IF ~InHeap(a + 2) THEN "wild"
                ELSE DumpTup(h, h[a + 2], h[a + 1], path)
           [] OTHER -> "ok"

(* obj.dump().                                                             *)
Dump(h, a) == DumpObj(h, a, {})

RECURSIVE TraverseObj(_, _, _, _)
RECURSIVE TraverseTup(_, _, _, _, _)

(* f(v): acc.calls lists the arguments of the calls of f so far.           *)
Visit(acc, v) == [acc EXCEPT !.calls = Append(acc.calls, v)]

(* The loop of Tup::traverse(f) from slot i on.                            *)
TraverseTup(h, a, i, path, acc) ==
    IF acc.st # "ok" THEN acc
    ELSE IF ~InHeap(a + 1) THEN [acc EXCEPT !.st = "wild"]
    ELSE IF i >= h[a + 1] THEN acc
    ELSE IF ~InHeap(a + TupHead + i) THEN [acc EXCEPT !.st = "wild"]
    ELSE TraverseTup(h, a, i + 1, path,
           TraverseObj(h, h[a + TupHead + i], path,
                       Visit(acc, h[a + TupHead + i])))

(* Tup::traverse(f) on the Tup at a. path holds the calls of               *)
(* Tup::traverse that have not returned: one made again inside itself      *)
(* recurses for ever.                                                      *)
EnterTup(h, a, path, acc) ==
    IF acc.st # "ok" THEN acc
    ELSE IF a \in path THEN [acc EXCEPT !.st = "diverge"]
    ELSE TraverseTup(h, a, 0, path \cup {a}, acc)

(* Vec::traverse without the call of f on the backing Tup.                 *)
TraverseVecUnvisited(h, a, path, acc) ==
    IF ~InHeap(a + 2) THEN [acc EXCEPT !.st = "wild"]
    ELSE EnterTup(h, h[a + 2], path, acc)

(* Vec::traverse(f).                                                       *)
TraverseVec(h, a, path, acc) ==
    IF ~InHeap(a + 2) THEN [acc EXCEPT !.st = "wild"]
    ELSE EnterTup(h, h[a + 2], path, Visit(acc, h[a + 2]))

(* Obj::traverse(f).                                                       *)
TraverseObj(h, a, path, acc) ==
    IF acc.st # "ok" THEN acc
    ELSE IF ~InHeap(a) THEN [acc EXCEPT !.st = "wild"]
    ELSE CASE TypeOf(h[a]) = TTup -> EnterTup(h, a, path, acc)
           [] TypeOf(h[a]) = TVec -> TraverseVec(h, a, path, acc)
           [] OTHER -> acc

(* The calls of f made by Obj::at(a)->traverse(f).                         *)
Traverse(h, a) == TraverseObj(h, a, {}, [calls |-> <<>>, st |-> "ok"])

(* mark_live marking what a handle's object refers to, not the object.     *)
MarkLiveLocsBelow(a, calls) == {calls[k] : k \in DOMAIN calls} \ {0}

(* Mem::mark_live_loc applied to a and to every call of a traversal.       *)
MarkLiveLocs(a, calls) == ({a} \cup {calls[k] : k \in DOMAIN calls}) \ {0}

RECURSIVE RootWalk(_, _, _)
(* The handles met from p by following next; n bounds a circular list.     *)
RootWalk(m, p, n) ==
    IF p = 0 \/ n = 0 THEN <<>>
    ELSE <<p>> \o RootWalk(m, m.next[p], n - 1)

Roots(m) == RootWalk(m, m.root, Cardinality(Handles))

(* One turn of the loop of Mem::mark_live: t is the traversal from the     *)
(* handle's location a.                                                    *)
MarkFrom(m, a, t) ==
    Stop([m EXCEPT !.live = m.live \cup MarkLiveLocs(a, t.calls)], t.st)

RECURSIVE MarkRoots(_, _, _)
(* The loop of Mem::mark_live over the root list rs, from index k.         *)
MarkRoots(m, rs, k) ==
    IF ~Ok(m) \/ k > Len(rs) THEN m
    ELSE MarkRoots(MarkFrom(m, m.loc[rs[k]],
                            Traverse(m.heap, m.loc[rs[k]])), rs, k + 1)

(* Mem::mark_live.                                                         *)
MarkLive(m) ==
    IF ~Ok(m) THEN m ELSE MarkRoots([m EXCEPT !.live = {}], Roots(m), 1)

----------------------------------------------------------------------------
(* The collectors.                                                         *)

RECURSIVE SweepFrom(_, _, _)
(* The loop of Mem::sweep_garbage from location a; n bounds a walk that    *)
(* does not advance.                                                       *)
SweepFrom(m, a, n) ==
    IF ~Ok(m) \/ ~(a < m.top) THEN m
    ELSE IF n = 0 THEN Stop(m, "diverge")
    ELSE IF SizeWild(m.heap, a) THEN Stop(m, "wild")
    ELSE IF SizeAborts(m.heap, a) THEN Stop(m, "abort")
    ELSE SweepFrom(IF a \notin m.live THEN MemFree(m, a, Size(m.heap, a))
                   ELSE m,
                   (a + Size(m.heap, a)) % WordMod, n - 1)

(* Mem::sweep_garbage.                                                     *)
SweepGarbage(m) == SweepFrom(m, 1, HeapSize)

RECURSIVE CopyWordsDown(_, _, _, _, _)
(* The copy loop running from the last word of the cell to the first.      *)
CopyWordsDown(h, to, from, i, size) ==
    IF i >= size THEN h
    ELSE CopyWordsDown([h EXCEPT ![to + size - 1 - i] = h[from + size - 1 - i]],
                       to, from, i + 1, size)

RECURSIVE CopyWords(_, _, _, _, _)
(* for (i = 0; i < size; ++i) heap[to + i] = heap[from + i], from index i. *)
CopyWords(h, to, from, i, size) ==
    IF i >= size THEN h
    ELSE CopyWords([h EXCEPT ![to + i] = h[from + i]], to, from, i + 1, size)

(* The copy loop of Mem::move and Mem::move_without_forwarding.            *)
CopyTo(m, to, from, size) ==
    IF ~Ok(m) THEN m
    ELSE IF ~InHeap(from + size - 1) \/ ~InHeap(to + size - 1)
         THEN Stop(m, "wild")
    ELSE [m EXCEPT !.heap = CopyWords(m.heap, to, from, 0, size)]

(* The ForwardingAddress Mem::move leaves at from.                         *)
Forward(m, from, to) ==
    IF ~Ok(m) THEN m
    ELSE IF ~InHeap(from + 1) THEN Stop(m, "wild")
    ELSE [m EXCEPT !.heap[from] = ObjInit(m.heap[from], TForward),
                   !.heap[from + 1] = to]

(* Mem::move(from).                                                        *)
Move(m, from) ==
    IF ~Ok(m) THEN m
    ELSE IF ~InHeap(from) \/ SizeWild(m.heap, from) THEN Stop(m, "wild")
    ELSE IF SizeAborts(m.heap, from) THEN Stop(m, "abort")
    ELSE Forward(CopyTo(Reserve(m, Size(m.heap, from)), m.top, from,
                        Size(m.heap, from)), from, m.top)

(* Mem::move_without_forwarding(from, size).                               *)
MoveWithoutForwarding(m, from, size) ==
    CopyTo(Reserve(m, size), m.top, from, size)

(* The live locations in the order std::set iterates them.                 *)
RECURSIVE Ascending(_)
Ascending(S) ==
    IF S = {} THEN <<>>
    ELSE <<CHOOSE y \in S : \A z \in S : y <= z>>
         \o Ascending(S \ {CHOOSE y \in S : \A z \in S : y <= z})

RECURSIVE MoveAll(_, _, _)
(* The loop of Mem::move_live over the live set.                           *)
MoveAll(m, ls, k) ==
    IF ~Ok(m) \/ k > Len(ls) THEN m
    ELSE MoveAll(IF ls[k] # 0 THEN Move(m, ls[k]) ELSE m, ls, k + 1)

(* The start of the semi-space the flip of move_live turns to.             *)
FlipTop(t) == IF t >= HeapSemiSize THEN 1 ELSE HeapSemiSize

(* top = (top >= HeapSemiSize) ? 1 : HeapSemiSize.                         *)
Flip(m) == IF ~Ok(m) THEN m ELSE [m EXCEPT !.top = FlipTop(m.top)]

(* Mem::move_live, after mark_live and the flip.                           *)
MoveMarked(m) == IF ~Ok(m) THEN m ELSE MoveAll(m, Ascending(m.live), 1)

(* Mem::move_live.                                                         *)
MoveLive(m) == MoveMarked(Flip(MarkLive(m)))

(* The forwarding entry written the wrong way round.                       *)
RecordReversed(m, from, to) ==
    IF ~Ok(m) THEN m
    ELSE [m EXCEPT !.forwarding =
            [x \in DOMAIN m.forwarding \cup {to} |->
               IF x = to THEN from ELSE m.forwarding[x]]]

(* forwarding[from] = to.                                                  *)
Record(m, from, to) ==
    IF ~Ok(m) THEN m
    ELSE [m EXCEPT !.forwarding =
            [x \in DOMAIN m.forwarding \cup {from} |->
               IF x = from THEN to ELSE m.forwarding[x]]]

(* compact_live moving every live cell, even before the first dead one.    *)
CompactCellAlways(m, old_top, from, size) ==
    IF from \in m.live
    THEN Record(MoveWithoutForwarding(m, from, size), from, m.top)
    ELSE IF old_top = m.top THEN [m EXCEPT !.top = from]
    ELSE m

(* The body of the loop of Mem::compact_live, on the cell at from.         *)
CompactCell(m, old_top, from, size) ==
    IF from \in m.live
    THEN IF old_top # m.top
         THEN Record(MoveWithoutForwarding(m, from, size), from, m.top)
         ELSE m
    ELSE IF old_top = m.top THEN [m EXCEPT !.top = from]
    ELSE m

RECURSIVE CompactFrom(_, _, _, _)
(* The loop of Mem::compact_live from location from.                       *)
CompactFrom(m, old_top, from, n) ==
    IF ~Ok(m) \/ ~(from < old_top) THEN m
    ELSE IF n = 0 THEN Stop(m, "diverge")
    ELSE IF SizeWild(m.heap, from) THEN Stop(m, "wild")
    ELSE IF SizeAborts(m.heap, from) THEN Stop(m, "abort")
    ELSE CompactFrom(CompactCell(m, old_top, from, Size(m.heap, from)),
                     old_top, (from + Size(m.heap, from)) % WordMod, n - 1)

(* Mem::compact_live, after forwarding.clear() and mark_live.              *)
CompactMarked(m) == CompactFrom(m, m.top, 1, HeapSize)

(* Mem::compact_live.                                                      *)
CompactLive(m) ==
    IF ~Ok(m) THEN m
    ELSE CompactMarked(MarkLive([m EXCEPT !.forwarding = <<>>]))

(* What LocAfterMove answers when the lookup reads outside the heap array: *)
(* no word holds it.                                                       *)
Wild == WordMod

(* Mem::loc_after_move(a).                                                 *)
LocAfterMove(m, a) ==
    IF mode = "COPY_GC"
    THEN IF ~InHeap(a) THEN Wild
         ELSE IF TypeOf(m.heap[a]) = TForward
              THEN (IF InHeap(a + 1) THEN m.heap[a + 1] ELSE Wild)
              ELSE a
    ELSE IF a \in DOMAIN m.forwarding THEN m.forwarding[a] ELSE a

(* p->loc = n.                                                             *)
FixHandle(m, h, n) ==
    IF n = Wild THEN Stop(m, "wild") ELSE [m EXCEPT !.loc[h] = n]

(* heap[x] = n, for a reference slot.                                      *)
FixWord(m, x, n) == IF n = Wild THEN Stop(m, "wild") ELSE SetWord(m, x, n)

RECURSIVE FixupHandles(_, _, _)
(* The first loop of Mem::fixup_references, over the root list.            *)
FixupHandles(m, rs, k) ==
    IF ~Ok(m) \/ k > Len(rs) THEN m
    ELSE FixupHandles(FixHandle(m, rs[k], LocAfterMove(m, m.loc[rs[k]])),
                      rs, k + 1)

RECURSIVE FixupTup(_, _, _)
(* Tup::fixup_references from slot i on.                                   *)
FixupTup(m, a, i) ==
    IF ~Ok(m) THEN m
    ELSE IF ~InHeap(a + 1) THEN Stop(m, "wild")
    ELSE IF i >= m.heap[a + 1] THEN m
    ELSE IF ~InHeap(a + TupHead + i) THEN Stop(m, "wild")
    ELSE FixupTup(FixWord(m, a + TupHead + i,
                          LocAfterMove(m, m.heap[a + TupHead + i])),
                  a, i + 1)

(* Vec::fixup_references.                                                  *)
FixupVec(m, a) ==
    IF ~InHeap(a + 2) THEN Stop(m, "wild")
    ELSE FixWord(m, a + 2, LocAfterMove(m, m.heap[a + 2]))

(* Obj::fixup_references.                                                  *)
FixupObj(m, a) ==
    CASE TypeOf(m.heap[a]) = TTup -> FixupTup(m, a, 0)
      [] TypeOf(m.heap[a]) = TVec -> FixupVec(m, a)
      [] OTHER -> m

RECURSIVE FixupFrom(_, _, _)
(* The second loop of Mem::fixup_references, over the cells from a to top. *)
FixupFrom(m, a, n) ==
    IF ~Ok(m) \/ ~(a < m.top) THEN m
    ELSE IF n = 0 THEN Stop(m, "diverge")
    ELSE IF SizeWild(m.heap, a) THEN Stop(m, "wild")
    ELSE IF SizeAborts(m.heap, a) THEN Stop(m, "abort")
    ELSE FixupFrom(FixupObj(m, a), (a + Size(m.heap, a)) % WordMod, n - 1)

(* The location the heap walk of fixup_references starts at.               *)
FixupStart(t) ==
    IF mode = "COPY_GC" THEN (IF t >= HeapSemiSize THEN HeapSemiSize ELSE 1)
    ELSE 1

(* Mem::fixup_references, after its first loop.                            *)
FixupHeap(m) == FixupFrom(m, FixupStart(m.top), HeapSize)

(* Mem::fixup_references.                                                  *)
FixupReferences(m) ==
    IF ~Ok(m) THEN m ELSE FixupHeap(FixupHandles(m, Roots(m), 1))

(* log_free_mem(a, size).                                                  *)
LogFreeMem(m, a, size) ==
    IF ~Ok(m) THEN m ELSE [m EXCEPT !.freed = Append(m.freed, <<a, size>>)]

(* Mem::gc, MARK_SWEEP_GC.                                                 *)
GcMarkSweep(m) == SweepGarbage(MarkLive(m))

(* gc() logging a whole semi-space whichever way the flip went.            *)
LogAbandonedHalf(m) ==
    IF ~Ok(m) THEN m
    ELSE IF m.top >= HeapSemiSize THEN LogFreeMem(m, 1, HeapSemiSize)
    ELSE LogFreeMem(m, HeapSemiSize, HeapSemiSize)

(* The log_free_mem call that ends the COPY_GC branch of Mem::gc.          *)
LogAbandoned(m) ==
    IF ~Ok(m) THEN m
    ELSE IF m.top >= HeapSemiSize THEN LogFreeMem(m, 1, HeapSemiSize - 1)
    ELSE LogFreeMem(m, HeapSemiSize, HeapSemiSize)

(* Mem::gc, COPY_GC.                                                       *)
GcCopy(m) == LogAbandoned(FixupReferences(MoveLive(m)))

(* The tail of the MARK_COMPACT_GC branch of Mem::gc.                      *)
CompactDone(m, old_top) ==
    IF ~Ok(m) THEN m
    ELSE IF old_top > m.top
         THEN LogFreeMem(FixupReferences(m), m.top, old_top - m.top)
    ELSE m

(* Mem::gc, MARK_COMPACT_GC.                                               *)
GcMarkCompact(m) == CompactDone(CompactLive(m), m.top)

(* Mem::gc.                                                                *)
MemGc(m) ==
    CASE mode = "MARK_SWEEP_GC" -> GcMarkSweep(m)
      [] mode = "COPY_GC" -> GcCopy(m)
      [] mode = "MARK_COMPACT_GC" -> GcMarkCompact(m)
      [] OTHER -> m

----------------------------------------------------------------------------
(* VecRef::push(obj).                                                      *)

(* std::cout << "// push "; obj.dump().                                    *)
PushDump(m, t) ==
    IF ~Ok(m) THEN m ELSE Stop(m, Dump(m.heap, m.loc[t]))

(* ObjRef::unshare(vec->tup); vec->tup = new_tup, new_tup being the Loc    *)
(* share() returned.                                                       *)
PushSwap(m, vec) ==
    IF ~Ok(m) THEN m
    ELSE SetWord(Unshare(m, m.heap[vec + 2], Depth), vec + 2, m.ret)

(* The growth branch of push: a backing Tup of twice the length.           *)
PushGrow(m, vec) ==
    IF ~Ok(m) THEN m
    ELSE PushSwap(
           Destroy(Share(TupRefCopy(m, Temp2, m.heap[vec + 2],
                                    2 * m.heap[vec + 1]), Temp2), Temp2),
           vec)

(* if (tup->len == vec->len) grow.                                         *)
PushFit(m, vec) ==
    IF ~Ok(m) THEN m
    ELSE IF ~InHeap(vec + 2) \/ ~InHeap(m.heap[vec + 2] + 1)
         THEN Stop(m, "wild")
    ELSE IF m.heap[m.heap[vec + 2] + 1] = m.heap[vec + 1]
         THEN PushGrow(m, vec)
    ELSE m

(* tup->set(vec->len, obj), obj being the parameter t of push.             *)
PushStore(m, vec, t) ==
    IF ~Ok(m) THEN m
    ELSE Destroy(TupSet(ByValue(m, Temp2, t), m.heap[vec + 2],
                        m.heap[vec + 1], Temp2), Temp2)

(* vec->len += 1.                                                          *)
PushLen(m, vec) ==
    IF ~Ok(m) THEN m
    ELSE SetWord(m, vec + 1, (m.heap[vec + 1] + 1) % WordMod)

(* VecRef::push(obj).                                                      *)
VecRefPush(m, h, g) ==
    Destroy(
      PushLen(
        PushStore(
          PushFit(PushDump(ByValue(m, Temp1, g), Temp1), m.loc[h]),
          m.loc[h], Temp1),
        m.loc[h]),
      Temp1)

----------------------------------------------------------------------------
(* The client: the operations of the public interface, in any order.      *)

FreeHandle == CHOOSE h \in ClientHandles \ alive :
                \A g \in ClientHandles \ alive : h <= g

CanHold == ClientHandles \ alive # {}

(* The client constructs at most MaxAllocs objects in a run.               *)
CanAlloc == CanHold /\ allocs < MaxAllocs

(* The outcome of an operation that ran to its end.                        *)
Completed(m, op) ==
    /\ heap' = m.heap
    /\ top' = m.top
    /\ root' = m.root
    /\ prev' = m.prev
    /\ next' = m.next
    /\ loc' = m.loc
    /\ alive' = m.alive
    /\ freed' = m.freed
    /\ status' = "ok"
    /\ last' = op

(* The outcome of an operation that did not return: the process is gone    *)
(* (assertion failure, stack exhausted, access outside the heap array),    *)
(* and only the way it ended is kept.                                      *)
Ended(m, op) ==
    /\ heap' = [x \in Locs |-> 0]
    /\ top' = 0
    /\ root' = 0
    /\ prev' = [h \in Handles |-> 0]
    /\ next' = [h \in Handles |-> 0]
    /\ loc' = [h \in Handles |-> 0]
    /\ alive' = {}
    /\ freed' = <<>>
    /\ status' = m.st
    /\ last' = op

Outcome(m, op) == IF Ok(m) THEN Completed(m, op) ELSE Ended(m, op)

(* A client operation other than gc.                                       *)
Commit(m, op) ==
    /\ Outcome(m, "op")
    /\ allocs' = IF op = "new" THEN allocs + 1 ELSE allocs
    /\ live' = {}
    /\ forwarding' = <<>>
    /\ UNCHANGED mode

(* The type the header under handle h shows; TypeMod when the handle       *)
(* points outside the heap array.                                          *)
TypeAt(h) == IF InHeap(loc[h]) THEN TypeOf(heap[loc[h]]) ELSE TypeMod

(* A method call through a handle that points outside the heap array.      *)
WildCall == Stop(Machine, "wild")

Held == alive \ {NilRef}

Indexes == 0 .. MaxTupLen

(* Storing the nil handle into a slot leaves one more count on the Nil     *)
(* object each time; the client does so while that count is at most        *)
(* MaxNilCount.                                                            *)
MayStore(g) == loc[g] # 0 \/ RcOf(heap[0]) <= MaxNilCount

(* NumRef n(v).                                                            *)
NewNum ==
    /\ status = "ok"
    /\ CanAlloc
    /\ \E v \in NumVals : Commit(NumRef(Machine, FreeHandle, v), "new")

(* StrRef s(data).                                                         *)
NewStr ==
    /\ status = "ok"
    /\ CanAlloc
    /\ \E d \in StrVals : Commit(StrRef(Machine, FreeHandle, d), "new")

(* TupRef t(len).                                                          *)
NewTup ==
    /\ status = "ok"
    /\ CanAlloc
    /\ \E n \in 1 .. MaxTupLen :
         Commit(TupRef(Machine, FreeHandle, n), "new")

(* VecRef v(size).                                                         *)
NewVec ==
    /\ status = "ok"
    /\ CanAlloc
    /\ \E n \in 0 .. MaxVecCap :
         Commit(VecRef(Machine, FreeHandle, n), "new")

(* ObjRef g(h): the copy constructor.                                      *)
CopyRef ==
    /\ status = "ok"
    /\ CanHold
    /\ \E h \in Held : Commit(RefShare(Machine, FreeHandle, loc[h]), "copy")

(* ObjRef g = t.get(i), on a TupRef or a VecRef.                           *)
Get ==
    /\ status = "ok"
    /\ CanHold
    /\ \E h \in Held, i \in Indexes :
         /\ TypeAt(h) \in {TTup, TVec, TypeMod}
         /\ LET m == CASE TypeAt(h) = TTup ->
                           TupGet(Machine, FreeHandle, loc[h], i)
                      [] TypeAt(h) = TVec ->
                           VecGet(Machine, FreeHandle, loc[h], i)
                      [] OTHER -> WildCall IN
            Commit(m, "get")

(* t.set(i, g), on a TupRef or a VecRef.                                   *)
Set ==
    /\ status = "ok"
    /\ \E h \in Held, g \in alive, i \in Indexes :
         /\ MayStore(g)
         /\ TypeAt(h) \in {TTup, TVec, TypeMod}
         /\ LET m == CASE TypeAt(h) = TTup -> TupRefSet(Machine, h, i, g)
                      [] TypeAt(h) = TVec -> VecRefSet(Machine, h, i, g)
                      [] OTHER -> WildCall IN
            Commit(m, "set")

(* v.push(g).                                                              *)
Push ==
    /\ status = "ok"
    /\ \E h \in Held, g \in alive :
         /\ MayStore(g)
         /\ TypeAt(h) \in {TVec, TypeMod}
         /\ LET m == IF TypeAt(h) = TVec THEN VecRefPush(Machine, h, g)
                      ELSE WildCall IN
            Commit(m, "push")

(* The destructor of a handle the client holds, in any order.              *)
Drop ==
    /\ status = "ok"
    /\ \E h \in Held : Commit(Destroy(Machine, h), "drop")

(* What a call of gc leaves behind: the live set and the forwarding table  *)
(* stay as the collector left them.                                        *)
GcCommit(m) ==
    /\ Outcome(m, "gc")
    /\ live' = IF Ok(m) THEN m.live ELSE {}
    /\ forwarding' = IF Ok(m) THEN m.forwarding ELSE <<>>
    /\ UNCHANGED <<mode, allocs>>

(* Mem::gc().                                                              *)
Gc ==
    /\ status = "ok"
    /\ LET m == MemGc(Machine) IN GcCommit(m)

InitMode(md) ==
    /\ mode = md
    /\ heap = [x \in Locs |-> IF x = 0 /\ md = "REF_COUNT_GC" THEN 1 ELSE 0]
    /\ top = 1
    /\ root = NilRef
    /\ prev = [h \in Handles |-> 0]
    /\ next = [h \in Handles |-> 0]
    /\ loc = [h \in Handles |-> 0]
    /\ alive = {NilRef}
    /\ live = {}
    /\ forwarding = <<>>
    /\ freed = <<>>
    /\ status = "ok"
    /\ last = "main"
    /\ allocs = 0

Init == \E md \in Modes : InitMode(md)

Next ==
    \/ NewNum
    \/ NewStr
    \/ NewTup
    \/ NewVec
    \/ CopyRef
    \/ Get
    \/ Set
    \/ Push
    \/ Drop
    \/ Gc

Spec == Init /\ [][Next]_vars

SpecRefCount == InitMode("REF_COUNT_GC") /\ [][Next]_vars
SpecMarkSweep == InitMode("MARK_SWEEP_GC") /\ [][Next]_vars
SpecCopy == InitMode("COPY_GC") /\ [][Next]_vars
SpecMarkCompact == InitMode("MARK_COMPACT_GC") /\ [][Next]_vars

(* t.set(i, nil) for the nil handle, as often as the client likes.         *)
SetNil ==
    /\ status = "ok"
    /\ \E h \in Held, i \in Indexes :
         /\ TypeAt(h) = TTup
         /\ LET m == TupRefSet(Machine, h, i, NilRef) IN Commit(m, "set")

(* A reference-counting client that builds Tups and stores nil into them.  *)
NextNilStores ==
    \/ NewTup
    \/ SetNil

SpecNilStores == InitMode("REF_COUNT_GC") /\ [][NextNilStores]_vars

----------------------------------------------------------------------------
(* The value under a location, up to structural equality: what a client    *)
(* reads by following it (type, Num value, Str characters, Tup slots, Vec  *)
(* elements), whatever the locations are.                                  *)

Word(h, x) == IF InHeap(x) THEN h[x] ELSE Wild

RECURSIVE Value(_, _, _)
Value(h, a, path) ==
    IF ~InHeap(a) \/ ~InHeap(a + 1) THEN <<"wild">>
    ELSE IF a \in path THEN <<"cycle">>
    ELSE CASE TypeOf(h[a]) = TNil -> <<"nil">>
           [] TypeOf(h[a]) = TNum -> <<"num", h[a + 1]>>
           [] TypeOf(h[a]) = TStr ->
                IF ~InHeap(a + 1 + h[a + 1]) THEN <<"wild">>
                ELSE <<"str", [k \in 1 .. h[a + 1] |-> h[a + 1 + k]]>>
           [] TypeOf(h[a]) = TTup ->
                IF ~InHeap(a + 1 + h[a + 1]) THEN <<"wild">>
                ELSE <<"tup", [k \in 1 .. h[a + 1] |->
                                 Value(h, h[a + 1 + k], path \cup {a})]>>
           [] TypeOf(h[a]) = TVec ->
                IF ~InHeap(a + 2) \/ ~InHeap(h[a + 2] + 1 + h[a + 1])
                THEN <<"wild">>
                ELSE <<"vec", [k \in 1 .. h[a + 1] |->
                                 Value(h, h[h[a + 2] + 1 + k],
                                       path \cup {a})]>>
           [] OTHER -> <<"bad", TypeOf(h[a])>>

(* A step that is a call of gc() that returned.                            *)
GcReturns == status = "ok" /\ last' = "gc" /\ status' = "ok"

Tracing == mode # "REF_COUNT_GC"

(* C1: under each tracing collector, a call of gc() that returns leaves    *)
(* under every handle a value structurally equal to the one it held        *)
(* before; only locations may differ.                                      *)
C1_GcPreservesValues ==
    [][(Tracing /\ GcReturns) =>
         \A h \in alive : Value(heap', loc'[h], {}) = Value(heap, loc[h], {})
      ]_vars

(* C2: after every completed operation, every handle in the root list      *)
(* holds 0 or the location of an object that is neither a Forward record   *)
(* nor a Free record.                                                      *)
C2_RootSoundness ==
    status = "ok" =>
      \A h \in alive :
         \/ loc[h] = 0
         \/ /\ InHeap(loc[h])
            /\ TypeOf(heap[loc[h]]) \notin {TForward, TFree}

(* The heap walk every collector makes: from a, each cell's size() leads   *)
(* to the next cell, up to t. cells are the cells met; end is where the    *)
(* walk stops, Wild when it meets a Forward record or leaves the heap.     *)
RECURSIVE Walk(_, _, _, _)
Cons(a, w) == [cells |-> {a} \cup w.cells, end |-> w.end]
Walk(h, a, t, n) ==
    IF ~(a < t) THEN [cells |-> {}, end |-> a]
    ELSE IF n = 0 \/ ~InHeap(a) \/ SizeWild(h, a) \/ SizeAborts(h, a)
         THEN [cells |-> {}, end |-> Wild]
    ELSE Cons(a, Walk(h, (a + Size(h, a)) % WordMod, t, n - 1))

ObjectTypes == {TNum, TTup, TVec, TStr}

(* The words of the cell at a that hold references.                        *)
RefSlots(h, a) ==
    CASE TypeOf(h[a]) = TTup -> {a + 1 + k : k \in 1 .. Word(h, a + 1)}
      [] TypeOf(h[a]) = TVec -> {a + 2}
      [] OTHER -> {}

(* The region in use: in copying mode the semi-space top lies in.          *)
ActiveStart == FixupStart(top)

ActiveCells == Walk(heap, ActiveStart, top, HeapSize)

ActiveObjects ==
    {a \in ActiveCells.cells : TypeOf(heap[a]) \in ObjectTypes}

(* C3: after gc() returns in copying or mark-compact mode, every handle    *)
(* and every reference slot of a cell of the active region holds 0 or the  *)
(* location of an object of that region; none holds a Forward record or a  *)
(* location an object was moved away from.                                 *)
C3_ForwardingResolved ==
    (status = "ok" /\ last = "gc" /\ mode \in {"COPY_GC", "MARK_COMPACT_GC"})
    => /\ ActiveCells.end = top
       /\ \A h \in alive : loc[h] \in {0} \cup ActiveObjects
       /\ \A a \in ActiveCells.cells : \A x \in RefSlots(heap, a) :
             Word(heap, x) \in {0} \cup ActiveObjects

(* The cells the walk from location 1 to top meets.                        *)
HeapCells == Walk(heap, 1, top, HeapSize)

(* The walk from 1 ends exactly at top, and each cell it meets is an       *)
(* object or a Free record.                                                *)
Partition ==
    /\ HeapCells.end = top
    /\ \A a \in HeapCells.cells : TypeOf(heap[a]) \in ObjectTypes \cup {TFree}

HandlesAt(a) == {h \in alive : loc[h] = a}

(* The reference slots of cells that are not Free and hold location a.     *)
SlotsAt(a) ==
    {x \in UNION {RefSlots(heap, c) : c \in
                    {d \in HeapCells.cells : TypeOf(heap[d]) # TFree}} :
       Word(heap, x) = a}

CountMatches(a) ==
    RcOf(heap[a]) = Cardinality(HandlesAt(a)) + Cardinality(SlotsAt(a))

RECURSIVE Closure(_, _, _)
Closure(h, S, n) ==
    IF n = 0 THEN S
    ELSE LET T == S \cup ({Word(h, x) : x \in UNION {RefSlots(h, a) :
                              a \in {b \in S : InHeap(b)}}} \ {0})
         IN  IF T = S THEN S ELSE Closure(h, T, n - 1)

Reachable(h, lc, al) == Closure(h, {lc[g] : g \in al} \ {0}, HeapSize)

(* The cell at a is an object that lies within the words lo .. hi - 1.     *)
ObjectWithin(h, a, lo, hi) ==
    /\ InHeap(a) /\ ~SizeWild(h, a)
    /\ TypeOf(h[a]) \in ObjectTypes
    /\ lo <= a /\ a + Size(h, a) <= hi

(* C6: in copying mode, after gc() returns, every live object lies         *)
(* entirely in the semi-space opposite to the one top indicated before     *)
(* the collection, intact.                                                 *)
C6_LiveInOppositeSemiSpace ==
    [][(mode = "COPY_GC" /\ GcReturns) =>
         \A a \in Reachable(heap', loc', alive') :
            IF top >= HeapSemiSize
            THEN ObjectWithin(heap', a, 1, HeapSemiSize)
            ELSE ObjectWithin(heap', a, HeapSemiSize, HeapSize)
      ]_vars

(* Two calls of gc() in a row.                                             *)
GcAfterGc == status = "ok" /\ last = "gc" /\ last' = "gc"

SameFootprint ==
    /\ status' = "ok"
    /\ top' = top
    /\ Reachable(heap', loc', alive') = Reachable(heap, loc, alive)

(* C7, as stated: in every mode, a second gc() right after a first leaves  *)
(* top and the set of locations of the live objects as they were.          *)
C7_GcTwiceEveryMode == [][GcAfterGc => SameFootprint]_vars

(* C7, amended: in reference-counting, mark-sweep and mark-compact mode a  *)
(* second gc() right after a first changes neither top, nor any handle,    *)
(* nor any word of the heap.                                               *)
C7_GcTwiceSingleRegion ==
    [][(GcAfterGc /\ mode # "COPY_GC") =>
         (SameFootprint /\ heap' = heap /\ loc' = loc)]_vars

(* A collection that reclaimed something while objects stay live, in a     *)
(* single-region tracing mode.                                             *)
C7_Witness ==
    /\ status = "ok" /\ last = "gc"
    /\ mode \in {"MARK_SWEEP_GC", "MARK_COMPACT_GC"}
    /\ freed # <<>>
    /\ Reachable(heap, loc, alive) # {}

(* The live objects before a collection, and the words they take.          *)
LiveBefore == Reachable(heap, loc, alive)

RECURSIVE SumSizes(_, _)
SumSizes(h, S) ==
    IF S = {} THEN 0
    ELSE LET a == CHOOSE x \in S : TRUE IN Size(h, a) + SumSizes(h, S \ {a})

(* Where sliding puts the live object at a: after the live objects below.  *)
SlidTo(a) == 1 + SumSizes(heap, {b \in LiveBefore : b < a})

(* C8: in mark-compact mode gc() slides the live objects down in address   *)
(* order: the cells of [1, top) are then exactly the live objects, packed  *)
(* in their former order, top is 1 plus the sum of their sizes, every      *)
(* handle follows its object, and the forwarding table maps exactly each   *)
(* moved object's old location to its new one.                             *)
C8_CompactSlides ==
    [][(mode = "MARK_COMPACT_GC" /\ GcReturns) =>
         /\ top' = 1 + SumSizes(heap, LiveBefore)
         /\ Walk(heap', 1, top', HeapSize).end = top'
         /\ Walk(heap', 1, top', HeapSize).cells = {SlidTo(a) : a \in LiveBefore}
         /\ \A a \in LiveBefore :
               /\ TypeOf(heap'[SlidTo(a)]) = TypeOf(heap[a])
               /\ Size(heap', SlidTo(a)) = Size(heap, a)
         /\ \A h \in alive : loc[h] # 0 => loc'[h] = SlidTo(loc[h])
         /\ DOMAIN forwarding' = {a \in LiveBefore : SlidTo(a) # a}
         /\ \A a \in DOMAIN forwarding' : forwarding'[a] = SlidTo(a)
      ]_vars

(* A compaction that kept an object in place and moved another down.       *)
C8_Witness ==
    /\ status = "ok" /\ last = "gc" /\ mode = "MARK_COMPACT_GC"
    /\ DOMAIN forwarding # {}
    /\ \E h \in alive : loc[h] # 0 /\ loc[h] \notin DOMAIN forwarding
                        /\ \A a \in DOMAIN forwarding : loc[h] < forwarding[a]

(* C9: in mark-sweep mode gc() turns every cell of [1, top) that is not    *)
(* live into a Free record of that cell's size at the same location, and   *)
(* leaves top, every handle and every word of every live object unchanged. *)
C9_SweepFrame ==
    [][(mode = "MARK_SWEEP_GC" /\ GcReturns) =>
         /\ top' = top
         /\ loc' = loc /\ alive' = alive /\ root' = root
         /\ prev' = prev /\ next' = next
         /\ \A a \in HeapCells.cells :
               IF a \in LiveBefore
               THEN \A k \in 0 .. (Size(heap, a) - 1) : heap'[a + k] = heap[a + k]
               ELSE /\ TypeOf(heap'[a]) = TFree
                    /\ heap'[a + 1] = Size(heap, a)
      ]_vars

(* A sweep that freed one cell and kept a live object.                     *)
C9_Witness ==
    /\ status = "ok" /\ last = "gc" /\ mode = "MARK_SWEEP_GC"
    /\ Len(freed) = 1
    /\ TypeOf(heap[freed[1][1]]) = TFree
    /\ \E h \in alive : loc[h] # 0 /\ TypeOf(heap[loc[h]]) \in ObjectTypes

(* C10, as stated: in copying mode every gc() logs exactly one free event, *)
(* of size HeapSemiSize, whichever way the flip went.                      *)
C10_OneEventOfSemiSize ==
    (status = "ok" /\ last = "gc" /\ mode = "COPY_GC") =>
      (Len(freed) = 1 /\ freed[1][2] = HeapSemiSize)

(* C10, amended: every gc() logs exactly one free event: location 1 and    *)
(* HeapSemiSize - 1 words when top ends at or above HeapSemiSize,          *)
(* location HeapSemiSize and HeapSemiSize words when it ends below.        *)
C10_OneEventPerFlip ==
    (status = "ok" /\ last = "gc" /\ mode = "COPY_GC") =>
      freed = <<IF top >= HeapSemiSize THEN <<1, HeapSemiSize - 1>>
                ELSE <<HeapSemiSize, HeapSemiSize>>>>

(* A collection that copied a live object into the high semi-space, and    *)
(* one that copied it back into the low one.                               *)
C10_Witness ==
    /\ status = "ok" /\ last = "gc" /\ mode = "COPY_GC"
    /\ freed = <<<<1, HeapSemiSize - 1>>>>
    /\ \E h \in alive : loc[h] >= HeapSemiSize

----------------------------------------------------------------------------
(* The sizes a client may ask the allocator for.                           *)
Requests == 1 .. HeapSize

(* C11: a request that brings top to exactly HeapSize succeeds, and once   *)
(* top is HeapSize a request for one more word fails.                      *)
C11_ExactFitSucceeds ==
    status = "ok" =>
      /\ \A n \in Requests :
            top + n = HeapSize =>
              /\ Ok(Alloc(Machine, n))
              /\ Alloc(Machine, n).top = HeapSize
      /\ top = HeapSize => ~Ok(Alloc(Machine, 1))

(* The end of the region reserve fills: the semi-space top lies in when    *)
(* copying, the heap otherwise.                                            *)
ActiveEnd ==
    IF mode = "COPY_GC" /\ top < HeapSemiSize THEN HeapSemiSize ELSE HeapSize

(* C12: reserve(n) starts the run at the current top and advances top by   *)
(* n, and aborts whenever top + n would exceed the active region: the      *)
(* whole heap, or the active semi-space in copying mode.                   *)
C12_ReserveActiveRegion ==
    status = "ok" =>
      \A n \in Requests :
         /\ Ok(Reserve(Machine, n)) => Reserve(Machine, n).top = top + n
         /\ top + n > ActiveEnd => ~Ok(Reserve(Machine, n))

(* C13: every call of gc() runs to completion, whatever graph the client   *)
(* built: no call of gc() recurses without end.                            *)
C13_GcTerminates ==
    [][(status = "ok" /\ last' = "gc") => status' # "diverge"]_vars

(* The handles of Vecs whose backing Tup is full: length = capacity.       *)
FullVecs ==
    {h \in Held : /\ TypeAt(h) = TVec
                  /\ InHeap(heap[loc[h] + 2] + 1)
                  /\ TypeOf(heap[heap[loc[h] + 2]]) = TTup
                  /\ heap[heap[loc[h] + 2] + 1] = heap[loc[h] + 1]}

(* A push of g onto the full Vec under h that neither runs out of heap     *)
(* nor prints a cyclic value.                                              *)
MayPush(h, g) ==
    /\ h \in FullVecs
    /\ Dump(heap, loc[g]) = "ok"
    /\ top + TupSizeNeeded(2 * heap[loc[h] + 1]) < HeapSize

(* The machine m after a push of x onto the Vec at v, which had n elements *)
(* in the backing Tup at old: the new backing Tup at nt has capacity 2n,   *)
(* holds the n elements in order and x after them.                         *)
GrownInto(m, v, nt, n, old, x) ==
    /\ InHeap(nt + 1 + 2 * n)
    /\ nt # old
    /\ TypeOf(m.heap[nt]) = TTup
    /\ m.heap[nt + 1] = 2 * n
    /\ m.heap[nt + 1] >= m.heap[v + 1]
    /\ \A k \in 1 .. n : m.heap[nt + 1 + k] = heap[old + 1 + k]
    /\ m.heap[nt + 1 + n + 1] = x
    /\ RefCounting => TypeOf(m.heap[old]) = TFree

Pushed(m, v, n, old, x) ==
    /\ Ok(m)
    /\ m.heap[v + 1] = n + 1
    /\ GrownInto(m, v, m.heap[v + 2], n, old, x)

(* C14: for every Vec of length N whose backing Tup has capacity N, N = 0  *)
(* included, push(x) succeeds, installs a backing Tup of capacity 2N with  *)
(* the old N elements in order, releases the old backing, and leaves the   *)
(* Vec with length N + 1, x at index N and capacity >= length.             *)
C14_PushGrows ==
    status = "ok" =>
      \A h \in Held, g \in alive :
         MayPush(h, g) =>
           Pushed(VecRefPush(Machine, h, g), loc[h], heap[loc[h] + 1],
                  heap[loc[h] + 2], loc[g])

(* The same for the Vecs that hold at least one element.                   *)
C14_PushGrowsNonEmpty ==
    status = "ok" =>
      \A h \in Held, g \in alive :
         (MayPush(h, g) /\ heap[loc[h] + 1] >= 1) =>
           Pushed(VecRefPush(Machine, h, g), loc[h], heap[loc[h] + 1],
                  heap[loc[h] + 2], loc[g])

(* Slot i of the Tup or Vec under h holds the object handle g holds.       *)
SelfStore(h, i, g) ==
    /\ loc[g] # 0
    /\ \/ /\ TypeAt(h) = TTup
          /\ i < heap[loc[h] + 1]
          /\ heap[loc[h] + TupHead + i] = loc[g]
       \/ /\ TypeAt(h) = TVec
          /\ i < heap[loc[h] + 1]
          /\ heap[heap[loc[h] + 2] + TupHead + i] = loc[g]

(* h.set(i, g).                                                            *)
SetThrough(h, i, g) ==
    IF TypeAt(h) = TTup THEN TupRefSet(Machine, h, i, g)
    ELSE VecRefSet(Machine, h, i, g)

(* The machine m after an assignment that freed nothing and left the       *)
(* header of the object at a, its count included, as it was.               *)
Kept(m, a) ==
    /\ Ok(m)
    /\ m.freed = <<>>
    /\ m.heap[a] = heap[a]
    /\ TypeOf(m.heap[a]) \in ObjectTypes

ObjectsIn(h) ==
    {a \in Walk(h, 1, top, HeapSize).cells : TypeOf(h[a]) \in ObjectTypes}

(* The objects the object at a refers to.                                  *)
Targets(h, a) == {Word(h, x) : x \in RefSlots(h, a)} \ {0}

(* The objects of heap h that lie on a reference cycle.                    *)
OnCycle(h) ==
    {a \in ObjectsIn(h) : a \in Closure(h, Targets(h, a), HeapSize)}

(* The locations the handles al hold.                                      *)
Held0(lc, al) == {lc[g] : g \in al} \ {0}

(* The objects of heap h reached from the handles al.                      *)
FromHandles(h, al) == Closure(h, Held0(loc, al), HeapSize)

(* The objects of heap h that a count keeps: those reached from the        *)
(* handles al or from an object on a cycle.                                *)
Counted(h, al) == Closure(h, Held0(loc, al) \cup OnCycle(h), HeapSize)

(* Position of the free event of the cell at a in the log f; 0 if none.    *)
FreedAt(f, a) ==
    IF \E k \in DOMAIN f : f[k][1] = a
    THEN CHOOSE k \in DOMAIN f : f[k][1] = a
    ELSE 0

(* The machine m after a release that took the graph from the heap and     *)
(* handles of the current state to heap h2 and handles al2: every object   *)
(* of gone is now a Free record of its size, logged after the objects it   *)
(* referred to; nothing else was freed; every other object is where it     *)
(* was, with the words h2 has.                                             *)
Cascaded(m, h2, gone) ==
    /\ Ok(m)
    /\ {m.freed[k][1] : k \in DOMAIN m.freed} = gone
    /\ \A a \in gone :
          /\ TypeOf(m.heap[a]) = TFree
          /\ m.heap[a + 1] = Size(heap, a)
          /\ m.freed[FreedAt(m.freed, a)][2] = Size(heap, a)
          /\ \A b \in Targets(h2, a) \cap gone :
                b = a \/ FreedAt(m.freed, b) < FreedAt(m.freed, a)
    /\ \A a \in ObjectsIn(heap) \ gone :
          /\ TypeOf(m.heap[a]) = TypeOf(heap[a])
          /\ \A k \in 1 .. (Size(heap, a) - 1) : m.heap[a + k] = h2[a + k]

(* The heap graph after slot i of the Tup or Vec under h is made to hold   *)
(* the object under g.                                                     *)
SlotOf(h, i) ==
    IF TypeAt(h) = TTup THEN loc[h] + TupHead + i
    ELSE heap[loc[h] + 2] + TupHead + i

HasSlot(h, i) ==
    /\ TypeAt(h) \in {TTup, TVec}
    /\ i < heap[loc[h] + 1]
    /\ InHeap(SlotOf(h, i))

Stored(h, i, g) == [heap EXCEPT ![SlotOf(h, i)] = loc[g]]

HandleDestroyed == alive' \subseteq alive /\ alive' # alive

(* C17: in reference-counting mode an object on a reference cycle is not   *)
(* freed when a handle is destroyed, and a cycle no handle reaches stays   *)
(* as it is whatever operation follows: each of its objects keeps a count  *)
(* of at least 1 and never becomes a Free record.                          *)
C17_CyclesAreKept ==
    [][(RefCounting /\ status = "ok" /\ status' = "ok") =>
         \A a \in OnCycle(heap) :
            (HandleDestroyed \/ a \notin Reachable(heap, loc, alive)) =>
              /\ TypeOf(heap'[a]) = TypeOf(heap[a])
              /\ RcOf(heap'[a]) >= 1
              /\ a \in OnCycle(heap')
      ]_vars

(* A cycle that no handle reaches any more.                                *)
C17_Witness ==
    /\ status = "ok" /\ RefCounting
    /\ OnCycle(heap) \ Reachable(heap, loc, alive) # {}

(* A step of a client operation other than gc() that returned.             *)
OpReturns == status = "ok" /\ last' = "op" /\ status' = "ok"

(* The cells of the region in use that are objects.                        *)
ActiveObjectCells ==
    {a \in ActiveCells.cells : TypeOf(heap[a]) \in ObjectTypes}

(* C18: no operation other than gc() marks, sweeps, moves or compacts      *)
(* objects or rewinds top: top does not decrease, every handle keeps its   *)
(* location, every object keeps its place, type, size and mark bit (under  *)
(* reference counting it may become a Free record instead when its count   *)
(* reaches zero), and no free event is logged by a tracing collector; and  *)
(* in reference-counting mode gc() changes nothing.                        *)
C18_CollectOnlyOnRequest ==
    [][/\ OpReturns =>
            /\ top' >= top
            /\ \A h \in alive \cap alive' : loc'[h] = loc[h]
            /\ Tracing => freed' = <<>>
            /\ \A a \in ActiveObjectCells :
                  \/ /\ TypeOf(heap'[a]) = TypeOf(heap[a])
                     /\ MarkOf(heap'[a]) = MarkOf(heap[a])
                     /\ Size(heap', a) = Size(heap, a)
                  \/ RefCounting /\ TypeOf(heap'[a]) = TFree
       /\ (RefCounting /\ GcReturns) =>
            /\ heap' = heap /\ top' = top
            /\ loc' = loc /\ alive' = alive
            /\ root' = root /\ freed' = <<>>
      ]_vars

(* The client's last allocation has returned while garbage lay in the heap *)
(* of a tracing collector.                                                 *)
C18_Witness ==
    /\ status = "ok" /\ last = "op" /\ Tracing
    /\ allocs = MaxAllocs
    /\ ActiveObjectCells \ Reachable(heap, loc, alive) # {}

(* C19: after any sequence of operations, in every mode, heap word 0 still *)
(* carries a header of type Nil, and the allocator never hands it out.     *)
C19_NilStays ==
    status = "ok" => (TypeOf(heap[0]) = TNil /\ top >= 1)

(* The handles a root walk meets, in order.                                *)
RootList == Roots(Machine)

(* C20: after any constructions and destructions of handles, in any order, *)
(* the list from ObjRef::root through next holds exactly the constructed   *)
(* handles, each once, prev mirrors next, and a destroyed handle is in no  *)
(* walk and keeps no link.                                                 *)
C20_RootListExact ==
    status = "ok" =>
      /\ Len(RootList) = Cardinality(alive)
      /\ {RootList[k] : k \in DOMAIN RootList} = alive
      /\ root # 0 => prev[root] = 0
      /\ \A k \in 1 .. (Len(RootList) - 1) :
            /\ next[RootList[k]] = RootList[k + 1]
            /\ prev[RootList[k + 1]] = RootList[k]
      /\ Len(RootList) > 0 => next[RootList[Len(RootList)]] = 0
      /\ \A h \in Handles \ alive : prev[h] = 0 /\ next[h] = 0

(* The first handle the client constructed was destroyed before the one    *)
(* constructed after it: not last-in first-out.                            *)
C20_Witness ==
    /\ status = "ok"
    /\ alive = {NilRef, MaxHandles + 1}
    /\ RootList = <<MaxHandles + 1, NilRef>>

(* The int arguments a client may pass as an index: one below 0 too.       *)
AnyIndexes == (0 - 1) .. MaxTupLen

(* g = h.get(i), g being the next free handle.                             *)
GetThrough(h, i) ==
    IF TypeAt(h) = TTup THEN TupGet(Machine, FreeHandle, loc[h], i)
    ELSE VecGet(Machine, FreeHandle, loc[h], i)

(* Index i is outside [0, len) for the Tup or Vec under h.                 *)
OutOfBounds(h, i) ==
    /\ TypeAt(h) \in {TTup, TVec}
    /\ i < 0 \/ i >= heap[loc[h] + 1]

(* C21: get and set on a Tup or a Vec with an index outside [0, len),      *)
(* negative ones included, abort on the assertion, before any word outside *)
(* the object's slots is read or written.                                  *)
C21_BadIndexAborts ==
    status = "ok" =>
      \A h \in Held, i \in AnyIndexes :
         OutOfBounds(h, i) =>
           /\ CanHold => GetThrough(h, i).st = "abort"
           /\ \A g \in alive : SetThrough(h, i, g).st = "abort"

(* The same for the indexes from len upwards.                              *)
C21_HighIndexAborts ==
    status = "ok" =>
      \A h \in Held, i \in AnyIndexes :
         (OutOfBounds(h, i) /\ i >= 0) =>
           /\ CanHold => GetThrough(h, i).st = "abort"
           /\ \A g \in alive : SetThrough(h, i, g).st = "abort"

(* The locations a traversal may start from: location 0, the handles'      *)
(* locations and the cells of the heap walk.                               *)
Starts == {a \in {0} \cup {loc[h] : h \in alive} \cup HeapCells.cells :
             InHeap(a) /\ InHeap(a + 1)}

(* The values of the slots of the Tup at a, in order.                      *)
SlotValues(h, a) == [k \in 1 .. h[a + 1] |-> Word(h, a + 1 + k)]

(* The calls of visit in depth-first order: each slot value in turn, 0     *)
(* included, each followed by the calls for the object it names; a Vec     *)
(* gives its backing location and then that location's slots. Defined      *)
(* where the graph under a has no cycle.                                   *)
RECURSIVE Preorder(_, _)
RECURSIVE PreorderFrom(_, _, _)
PreorderFrom(h, out, k) ==
    IF k > Len(out) THEN <<>>
    ELSE <<out[k]>> \o Preorder(h, out[k]) \o PreorderFrom(h, out, k + 1)

Preorder(h, a) ==
    CASE TypeOf(h[a]) = TTup -> PreorderFrom(h, SlotValues(h, a), 1)
      [] TypeOf(h[a]) = TVec ->
           <<h[a + 2]>> \o PreorderFrom(h, SlotValues(h, h[a + 2]), 1)
      [] OTHER -> <<>>

(* Every Vec at or under a has a Tup at its backing location.              *)
BackedByTups(h, a) ==
    \A b \in {a} \cup Closure(h, Targets(h, a), HeapSize) :
       (InHeap(b) /\ TypeOf(h[b]) = TVec) =>
          (InHeap(Word(h, b + 2)) /\ TypeOf(h[Word(h, b + 2)]) = TTup)

(* The sequence s has no element twice.                                    *)
NoRepeat(s) == \A j, k \in DOMAIN s : s[j] = s[k] => j = k

(* C22, as stated: traverse(visit) calls visit exactly once for each       *)
(* non-zero outgoing location of the object and never for location 0.      *)
C22_VisitsOutgoingOnce ==
    status = "ok" =>
      \A a \in Starts :
         Traverse(heap, a).st = "ok" =>
           /\ \A k \in DOMAIN Traverse(heap, a).calls :
                 Traverse(heap, a).calls[k] # 0
           /\ NoRepeat(Traverse(heap, a).calls)
           /\ TypeOf(heap[a]) = TTup =>
                {Traverse(heap, a).calls[k] :
                   k \in DOMAIN Traverse(heap, a).calls} = Targets(heap, a)

(* C22, amended: a traversal that returns has called visit once for each   *)
(* slot in depth-first order, with the slot's value whether 0 or not, and  *)
(* has traversed the object each slot names in turn; where every Vec has   *)
(* a Tup behind it the non-zero locations visited are the objects          *)
(* reachable from the object's slots; Nil, Num, Str, Free and Forward      *)
(* visit nothing.                                                          *)
C22_VisitsEverySlot ==
    status = "ok" =>
      \A a \in Starts :
         Traverse(heap, a).st = "ok" =>
           /\ Traverse(heap, a).calls = Preorder(heap, a)
           /\ BackedByTups(heap, a) =>
                {Traverse(heap, a).calls[k] :
                   k \in DOMAIN Traverse(heap, a).calls} \ {0}
                  = Closure(heap, Targets(heap, a), HeapSize)
           /\ TypeOf(heap[a]) \notin {TTup, TVec} =>
                Traverse(heap, a).calls = <<>>

(* A Vec that holds an object and has an empty slot left in its backing    *)
(* Tup: the traversal visits the Tup, the object and location 0.           *)
C22_Witness ==
    /\ status = "ok"
    /\ \E h \in Held :
         /\ TypeAt(h) = TVec
         /\ Traverse(heap, loc[h]).st = "ok"
         /\ Len(Traverse(heap, loc[h]).calls) = 3
         /\ Traverse(heap, loc[h]).calls[2] # 0
         /\ Traverse(heap, loc[h]).calls[3] = 0

(* The words of the cell of heap h at a.                                   *)
CellWords(h, a) == a .. (a + Size(h, a) - 1)

(* C23: in mark-compact mode every slide of compact_live goes down         *)
(* (to < from), lands below the cells the walk has yet to visit, and       *)
(* leaves at its destination the words the cell had before the             *)
(* collection; a live cell that is not slid keeps its words in place.      *)
C23_SlidesFromIntactCells ==
    (mode = "MARK_COMPACT_GC" /\ status = "ok" /\ Ok(CompactLive(Machine))) =>
       /\ \A a \in DOMAIN CompactLive(Machine).forwarding :
             /\ CompactLive(Machine).forwarding[a] < a
             /\ \A b \in LiveBefore :
                   b > a => CompactLive(Machine).forwarding[a]
                              + Size(heap, a) <= b
             /\ \A i \in 0 .. (Size(heap, a) - 1) :
                   CompactLive(Machine).heap[
                      CompactLive(Machine).forwarding[a] + i] = heap[a + i]
       /\ DOMAIN CompactLive(Machine).forwarding \subseteq LiveBefore
       /\ \A a \in LiveBefore \ DOMAIN CompactLive(Machine).forwarding :
             \A x \in CellWords(heap, a) :
                CompactLive(Machine).heap[x] = heap[x]

(* A collection about to slide a live cell onto words of its own source:   *)
(* the gap below it is shorter than the cell.                              *)
C23_Witness ==
    /\ mode = "MARK_COMPACT_GC" /\ status = "ok" /\ Ok(CompactLive(Machine))
    /\ \E a \in DOMAIN CompactLive(Machine).forwarding :
          /\ CompactLive(Machine).forwarding[a] < a
          /\ CompactLive(Machine).forwarding[a] + Size(heap, a) > a
    /\ Cardinality(DOMAIN CompactLive(Machine).forwarding) >= 2

(* The cells move_live moves in a collection started now, in its order,    *)
(* and the machine as the k-th of these moves finds it.                    *)
MoveOrder == Ascending(MarkLive(Machine).live)

BeforeMove(k) ==
    MoveAll(Flip(MarkLive(Machine)), SubSeq(MoveOrder, 1, k - 1), 1)

(* What C24 says of one move of the cell at a, from machine b to n.        *)
MoveFrame(b, a, n) ==
    /\ n.top = b.top + Size(b.heap, a)
    /\ \A i \in 0 .. (Size(b.heap, a) - 1) :
          n.heap[b.top + i] = b.heap[a + i]
    /\ TypeOf(n.heap[a]) = TForward
    /\ n.heap[a + 1] = b.top
    /\ a + 1 \in CellWords(b.heap, a)
    /\ \A x \in Locs \ (CellWords(b.heap, a)
                          \cup (b.top .. (b.top + Size(b.heap, a) - 1))) :
          n.heap[x] = b.heap[x]

(* C24: each move(src) a copying collection performs reserves size(src)    *)
(* words at the old top, leaves there a word-for-word copy of the source   *)
(* cell as it was before the call, turns the source into a Forward record  *)
(* naming the destination, which fits inside the source cell, and changes  *)
(* no other heap word.                                                     *)
C24_MoveCopiesAndForwards ==
    (mode = "COPY_GC" /\ status = "ok") =>
       \A k \in 1 .. Len(MoveOrder) :
          (/\ MoveOrder[k] # 0
           /\ Ok(BeforeMove(k))
           /\ Ok(Move(BeforeMove(k), MoveOrder[k])))
          => MoveFrame(BeforeMove(k), MoveOrder[k],
                       Move(BeforeMove(k), MoveOrder[k]))

(* The sequence s without the element h.                                   *)
Without(s, h) == SelectSeq(s, LAMBDA g : g # h)

(* What C25 says of the machine d the destructor of handle h leaves.       *)
DestroyFrame(h, d) ==
    /\ Ok(d)
    /\ d.heap = heap /\ d.top = top
    /\ Roots(d) = Without(RootList, h)
    /\ h \notin d.alive
    /\ Ok(MarkLive(d)) =>
         MarkLive(d).live = Reachable(heap, d.loc, d.alive)

(* C25: under the three tracing collectors, destroying a handle takes it   *)
(* out of the root list and changes no heap word and not top; the marking  *)
(* of the next gc() then finds live exactly the objects the remaining      *)
(* handles reach.                                                          *)
C25_DestroyLeavesHeap ==
    (Tracing /\ status = "ok") =>
       \A h \in Held : DestroyFrame(h, Destroy(Machine, h))

(* The last handle on an object is destroyed: the object stays in place    *)
(* and the next marking does not find it.                                  *)
C25_Witness ==
    /\ Tracing /\ status = "ok"
    /\ \E h \in Held :
         /\ loc[h] # 0
         /\ TypeOf(heap[loc[h]]) \in ObjectTypes
         /\ Ok(MarkLive(Destroy(Machine, h)))
         /\ loc[h] \notin MarkLive(Destroy(Machine, h)).live
         /\ Destroy(Machine, h).heap = heap
         /\ MarkLive(Destroy(Machine, h)).live # {}

(* The locations a handle or a slot of a cell that is not Free holds.      *)
HeldLocations == {a \in Locs : HandlesAt(a) # {} \/ SlotsAt(a) # {}}

(* C26: in reference-counting mode no location that a handle or a slot of  *)
(* a non-Free object holds is a Free record, and its 8-bit count is not 0, *)
(* however many counts the object has taken.                               *)
C26_HeldIsNotFreed ==
    (RefCounting /\ status = "ok") =>
       \A a \in HeldLocations :
          TypeOf(heap[a]) # TFree /\ RcOf(heap[a]) # 0

(* Request sizes from both ends of the 16-bit range.                       *)
WideRequests == Requests \cup ((WordMod - HeapSize) .. (WordMod - 1))

(* C27: for every 16-bit request size n, a reserve(n) that returns leaves  *)
(* top at the previous top plus n, not below where it was, and the run     *)
(* [loc, loc + n) inside the heap.                                         *)
C27_ReserveNeverWraps ==
    status = "ok" =>
      \A n \in WideRequests :
         Ok(Reserve(Machine, n)) =>
           /\ Reserve(Machine, n).top = top + n
           /\ Reserve(Machine, n).top >= top
           /\ top + n <= HeapSize

(* The same for the requests that do not exceed the size of the heap.      *)
C27_SmallReserveAdvances ==
    status = "ok" =>
      \A n \in Requests :
         Ok(Reserve(Machine, n)) =>
           /\ Reserve(Machine, n).top = top + n
           /\ top + n <= HeapSize

(* The Vecs of machine m that its handles reach.                           *)
VecsOf(m) ==
    {a \in Closure(m.heap, {m.loc[g] : g \in m.alive} \ {0}, HeapSize) :
       InHeap(a) /\ InHeap(a + 2) /\ TypeOf(m.heap[a]) = TVec}

(* The slots of the backing Tup of the Vec at a from index len on.         *)
SpareSlots(m, a) ==
    {m.heap[a + 2] + TupHead + k :
       k \in m.heap[a + 1] .. (Word(m.heap, m.heap[a + 2] + 1) - 1)}

(* Every spare slot of every Vec of m holds location 0.                    *)
SpareSlotsClear(m) ==
    \A a \in VecsOf(m) : \A x \in SpareSlots(m, a) : Word(m.heap, x) = 0

(* A new Vec of capacity n under the next free handle, g pushed onto it,   *)
(* and a collection after that.                                            *)
PushedOnNew(n, g) == VecRefPush(VecRef(Machine, FreeHandle, n), FreeHandle, g)

(* The capacities a client gives such a Vec.                               *)
NewCaps == 1 .. (MaxVecCap + 1)

(* C28: for every Vec the handles reach, after any pushes, sets and        *)
(* collections, every slot of its backing Tup at an index >= the Vec's     *)
(* length holds location 0; so it is too after one more Vec is built and   *)
(* pushed onto, and after a collection that follows.                       *)
C28_SpareSlotsAreNil ==
    status = "ok" =>
      /\ SpareSlotsClear(Machine)
      /\ CanHold =>
           \A n \in NewCaps, g \in alive :
              /\ Ok(PushedOnNew(n, g)) => SpareSlotsClear(PushedOnNew(n, g))
              /\ Ok(MemGc(PushedOnNew(n, g)))
                   => SpareSlotsClear(MemGc(PushedOnNew(n, g)))

====
